---- MODULE Spec2Model ----
\* Order intake of the razorpay-create-order function variants: a request is
\* validated, a gateway (Razorpay) order is created or a COD token synthesized,
\* and an order document is written to the Appwrite document store.
\* One variant ("handler") is deployed at a time; requests of the same
\* deployment interleave at every await of the handler.
EXTENDS Integers, Sequences, FiniteSets, TLC

\* ---------------------------------------------------------------- bounds
MaxReq == 2        \* request invocations per behaviour
MaxDocs == 3       \* documents the store accepts before it rejects inserts
MaxVerify == 1     \* runs of the payment-verification collaborator

Requests == 1..MaxReq

\* ---------------------------------------------------------------- handlers
\* The handler variants of the repository that the model covers.
Handlers ==
  {"part_006", "part_007", "part_013c", "part_012", "part_003c",
   "part_009t", "part_013d", "part_009a", "part_008", "part_005", "index_js",
   "part_003a"}

\* Variants that look the natural key up before writing.
UpsertHandlers == {"part_006", "part_007", "part_013c", "part_012"}

\* Variants that wrap the gateway call in promiseWithTimeout.
TimeoutHandlers == {"part_009t", "part_013d"}

\* Variants that build the store client of a request from the request's
\* x-appwrite-key header.
HeaderKeyHandlers == {"part_003c", "part_009t", "part_013d", "index_js"}

\* The variant whose store client is a module-level object shared by all
\* requests of a warm container.
SharedClientHandlers == {"part_005"}

\* Variants that flatten the shipping element at shippingPrimaryIndex.
IndexedShippingHandlers == {"part_006", "part_007", "part_013c", "part_009a"}

\* Variants whose receipt is order_rcpt_<Date.now()>_<random>; the others send
\* order_rcpt_<Date.now()>.
RandomReceiptHandlers == {"part_008", "index_js"}

\* ---------------------------------------------------------------- values
NaN == 0 - 1              \* Number(x) of a non-numeric x
NoDoc == 0                \* "no document" ($id of documents start at 1)
NoKey == "none"           \* no natural key yet

GwIds == {"order_A", "order_B"}     \* ids the gateway assigns
CodIds == {"cod_1_7", "cod_1_8"}    \* cod_<Date.now()>_<random> tokens
GwSkew == {0, 1}                    \* gateway amount minus requested amount
NoHeader == "none"                  \* no x-appwrite-key header / key never set
HeaderKeys == {"key_1", "key_2"}    \* values of the x-appwrite-key header
EnvKey == "env"                     \* process.env.APPWRITE_API_KEY
Unissued == "unissued"              \* no store write issued yet
RandSuffixes == {7, 8}              \* Math.floor(Math.random() * 10000)
Bodies == {"object", "unparseable", "null", "scalar"}   \* what req.bodyRaw holds

\* The client's amount field. k = "none": absent; "num": a number or numeric
\* string, c its value in hundredths; "junk": a non-numeric string ("abc");
\* "prefix": a string with a numeric prefix ("12abc"), c the prefix in hundredths.
Amount(k, c) == [k |-> k, c |-> c]
NoAmount == Amount("none", 0)

\* Number(amount) * 100, rounded (NaN when amount is not numeric).
NumberCents(a) == IF a.k = "num" THEN a.c ELSE IF a.k = "none" THEN 0 ELSE NaN

\* !amount || isNaN(Number(amount)) || Number(amount) <= 0
BadAmountNumber(a) ==
  \/ a.k = "none"
  \/ a.k = "num" /\ a.c = 0
  \/ a.k \in {"junk", "prefix"}
  \/ a.k = "num" /\ a.c <= 0

\* parseInt(amount, 10): the integer part of a number, the numeric prefix of a
\* string, NaN otherwise.
ParseInt(a) ==
  IF a.k \in {"num", "prefix"}
  THEN (IF a.c >= 0 THEN a.c \div 100 ELSE 0 - ((0 - a.c) \div 100))
  ELSE NaN

\* isNaN(intAmount) || intAmount <= 0
BadAmountParseInt(a) == ParseInt(a) = NaN \/ ParseInt(a) <= 0

\* Math.round(Number(amount || 0) * 100)
AmountPaiseFromClient(a) == NumberCents(a)

\* The amount is a number (or numeric string) greater than zero.
NumericPositive(a) == a.k = "num" /\ a.c > 0

\* ---------------------------------------------------------------- requests
\* method: the verb; userId: a customer id is present; pm: the payment method
\* field ("none": absent); shipping: a shipping object is present; size: some
\* line item carries a size; hdr: the x-appwrite-key header; body: what the raw
\* body holds ("object": a JSON object with the fields above, "unparseable":
\* text that is no JSON, "null": the JSON null, "scalar": a JSON number or
\* string).
\* labelLen: characters of the longest line-item label before truncation;
\* jsonLen: characters of JSON.stringify(items); shipLen: elements of the
\* normalized shipping array; shipIdx: the shippingPrimaryIndex field (k =
\* "none": absent, "nonint": not an integer, "int": the integer v); sizeAt:
\* position of the first line item that carries a size (0: no item does).
NoIndex == [k |-> "none", v |-> 0]
Input(m, u, p, a, s, z) ==
  [method |-> m, userId |-> u, pm |-> p, amount |-> a, shipping |-> s, size |-> z,
   hdr |-> NoHeader, body |-> "object",
   labelLen |-> 10, jsonLen |-> 100,
   shipLen |-> IF s THEN 1 ELSE 0, shipIdx |-> NoIndex,
   sizeAt |-> IF z THEN 1 ELSE 0]

\* The same requests, carrying an x-appwrite-key header.
WithKey(S) == { [i EXCEPT !.hdr = "key_1"] : i \in S }

\* Requests of the interleaving specification: well-formed POSTs.
LeanInputs ==
  WithKey({ Input("POST", TRUE, p, Amount("num", 10050), TRUE, TRUE) : p \in {"razorpay", "cod"} })

\* Requests of the shared-client specification: well-formed gateway POSTs with
\* and without the header.
KeyedInputs ==
  { [Input("POST", TRUE, "razorpay", Amount("num", 10050), TRUE, TRUE) EXCEPT !.hdr = k] :
      k \in {NoHeader} \cup HeaderKeys }

\* Requests of the validation specification.
Amounts ==
  { NoAmount, Amount("num", 0), Amount("num", 50), Amount("num", 10050),
    Amount("junk", 0), Amount("prefix", 1200) }

\* A well-formed gateway POST with the given line items and shipping array.
ItemInput(label, json, ship, idx, sizeAt) ==
  [Input("POST", TRUE, "razorpay", Amount("num", 10050), ship > 0, sizeAt > 0) EXCEPT
     !.labelLen = label, !.jsonLen = json, !.shipLen = ship, !.shipIdx = idx,
     !.sizeAt = sizeAt]

Indices ==
  { NoIndex, [k |-> "nonint", v |-> 0] } \cup { [k |-> "int", v |-> v] : v \in {0 - 1, 0, 1, 2} }

ItemInputs ==
  { ItemInput(n, 100, 1, NoIndex, 1) : n \in {495, 1200, 10005} }
  \cup { ItemInput(10, n, 1, NoIndex, 1) : n \in {1500, 20000} }
  \cup { ItemInput(10, 100, 2, i, 1) : i \in Indices }
  \cup { ItemInput(10, 100, 1, NoIndex, 2) }

RichInputs ==
  WithKey(
    ItemInputs \cup
    { Input(m, u, p, a, s, z) :
        m \in {"POST"}, u \in BOOLEAN, p \in {"razorpay", "cod", "upi", "none"},
        a \in Amounts, s \in {TRUE}, z \in BOOLEAN }
    \cup { Input(m, TRUE, "none", NoAmount, FALSE, FALSE) : m \in {"GET", "DELETE"} }
    \cup { Input("POST", TRUE, "razorpay", Amount("num", 10050), FALSE, TRUE) }
    \cup { [Input("POST", FALSE, "none", NoAmount, FALSE, FALSE) EXCEPT !.body = b] :
              b \in Bodies \ {"object"} })
  \cup { Input(m, TRUE, "razorpay", Amount("num", 10050), TRUE, TRUE) : m \in {"GET", "POST"} }

\* ---------------------------------------------------------------- responses
\* status: HTTP status (0: nothing sent yet); success: the success field ("text"
\* for res.text); orderId / amount: the order id and amount of the body; savedDoc:
\* $id of the saved document in the body; dbSaved: the dbSaved flag ("absent" when
\* the body has none); dbError: the body carries the store's error text;
\* errText: the body carries the message of an exception the outer catch caught.
Response(st, ok, oid, amt, doc, flag, err) ==
  [status |-> st, success |-> ok, orderId |-> oid, amount |-> amt,
   savedDoc |-> doc, dbSaved |-> flag, dbError |-> err, errText |-> FALSE]

NoResponse == Response(0, "none", NoKey, 0, NoDoc, "absent", FALSE)
Fail(st) == Response(st, "false", NoKey, 0, NoDoc, "absent", FALSE)
Live == Response(200, "text", NoKey, 0, NoDoc, "absent", FALSE)
\* The outer catch: { success: false, error: err.message || String(err) }, 500.
Caught == [Fail(500) EXCEPT !.errText = TRUE]


\* ---------------------------------------------------------------- state
VARIABLES
  handler,   \* the deployed variant
  env,       \* process.env: rzp (RAZORPAY_KEY_ID and RAZORPAY_KEY_SECRET set),
             \* aw (the Appwrite settings set; FALSE: the orders collection
             \* id is unset)
  req,       \* per request: the handler invocation's position and locals
  store,     \* the orders collection: sequence of documents, $id = index
  nVerify,   \* runs of the payment-verification collaborator so far
  clientKey  \* the API key of the module-level store client (part_005)

vars == <<handler, env, req, store, nVerify, clientKey>>

NoOrder == [id |-> NoKey, amount |-> 0]

\* A handler invocation that has not started.
Idle ==
  [pc |-> "idle", in |-> Input("POST", FALSE, "none", NoAmount, FALSE, FALSE),
   sent |-> 0, gw |-> "none", order |-> NoOrder, key |-> NoKey,
   lookup |-> "none", existing |-> NoDoc, op |-> "none", wres |-> "none",
   resp |-> NoResponse, gwCalls |-> 0, storeCalls |-> 0,
   tick |-> 0, rand |-> 0, auth |-> Unissued, nResp |-> 0]

Envs == [rzp : BOOLEAN, aw : BOOLEAN]

Init ==
  /\ handler \in Handlers
  /\ env \in Envs
  /\ req = [r \in Requests |-> Idle]
  /\ store = << >>
  /\ nVerify = 0
  /\ clientKey = NoHeader

\* ---------------------------------------------------------------- validation
\* The resolved payment method of a request.
PmOf(h, in) ==
  CASE h \in {"part_006", "part_007"} ->
         (IF in.pm = "none" THEN "razorpay" ELSE in.pm)
    [] h \in {"part_013c", "part_009a"} ->
         (IF in.pm = "none" THEN "razorpay" ELSE in.pm)
    [] OTHER -> "razorpay"

\* The verb check shared by all variants: 0 for POST, 200 (liveness text) for
\* GET, 405 otherwise.
MethodCheck(in) ==
  IF in.method = "POST" THEN 0 ELSE IF in.method = "GET" THEN 200 ELSE 405

\* Each Validate_* is the synchronous prefix of a handler up to its first
\* await: the status of the early response, or 0 when the handler goes on.
Validate_part_006(in, e) ==
  LET pm == PmOf("part_006", in) IN
  IF MethodCheck(in) # 0 THEN MethodCheck(in)
  ELSE IF ~in.userId THEN 400
  ELSE IF pm \notin {"cod", "razorpay"} THEN 400
  ELSE IF pm = "razorpay" /\ BadAmountNumber(in.amount) THEN 400
  ELSE IF ~in.shipping THEN 400
  ELSE IF ~in.size THEN 400
  ELSE IF pm = "razorpay" /\ ~e.rzp THEN 500
  ELSE 0

Validate_part_007(in, e) ==
  LET pm == PmOf("part_007", in) IN
  IF MethodCheck(in) # 0 THEN MethodCheck(in)
  ELSE IF ~in.userId THEN 400
  ELSE IF ~in.shipping THEN 400
  ELSE IF ~in.size THEN 400
  ELSE IF pm = "razorpay" /\ BadAmountNumber(in.amount) THEN 400
  ELSE IF pm = "razorpay" /\ ~e.rzp THEN 500
  ELSE 0

Validate_part_013c(in, e) ==
  LET pm == PmOf("part_013c", in) IN
  IF MethodCheck(in) # 0 THEN MethodCheck(in)
  ELSE IF pm \notin {"cod", "razorpay"} THEN 400
  ELSE IF pm = "razorpay" /\ BadAmountNumber(in.amount) THEN 400
  ELSE IF pm = "razorpay" /\ ~e.rzp THEN 500
  ELSE 0

Validate_part_009a(in, e) ==
  LET pm == PmOf("part_009a", in) IN
  IF MethodCheck(in) # 0 THEN MethodCheck(in)
  ELSE IF pm \notin {"cod", "razorpay"} THEN 400
  ELSE IF pm = "razorpay" /\ BadAmountNumber(in.amount) THEN 400
  ELSE IF pm = "razorpay" /\ ~e.rzp THEN 500
  ELSE 0

\* new Razorpay({key_id, key_secret}) throws when a credential is undefined; the
\* outer catch answers 500.
Validate_part_012(in, e) ==
  IF MethodCheck(in) # 0 THEN MethodCheck(in)
  ELSE IF BadAmountNumber(in.amount) THEN 400
  ELSE IF ~e.rzp THEN 500
  ELSE 0

\* parseJSON gives null for the JSON null; destructuring it throws.
Validate_part_008(in, e) ==
  IF MethodCheck(in) # 0 THEN MethodCheck(in)
  ELSE IF in.body = "null" THEN 500
  ELSE IF BadAmountNumber(in.amount) THEN 400
  ELSE IF ~e.rzp THEN 500
  ELSE 0

\* The three variants below construct the Razorpay client before the verb
\* check; reading bodyData.body of a null body throws inside the parsing try,
\* whose catch answers 400.
Validate_part_003c(in, e) ==
  IF ~e.rzp THEN 500
  ELSE IF MethodCheck(in) # 0 THEN MethodCheck(in)
  ELSE IF in.body = "null" THEN 400
  ELSE IF ~in.userId \/ in.amount.k = "none" THEN 400
  ELSE IF BadAmountParseInt(in.amount) THEN 400
  ELSE 0

Validate_part_009t(in, e) ==
  IF ~e.rzp THEN 500
  ELSE IF MethodCheck(in) # 0 THEN MethodCheck(in)
  ELSE IF in.body = "null" THEN 400
  ELSE IF ~in.userId \/ in.amount.k = "none" THEN 400
  ELSE IF BadAmountParseInt(in.amount) THEN 400
  ELSE 0

Validate_part_013d(in, e) ==
  IF ~e.rzp THEN 500
  ELSE IF MethodCheck(in) # 0 THEN MethodCheck(in)
  ELSE IF in.body = "null" THEN 400
  ELSE IF ~in.userId \/ in.amount.k = "none" THEN 400
  ELSE IF BadAmountParseInt(in.amount) THEN 400
  ELSE 0

\* safeParse gives null for the JSON null; reading bodyData.body throws.
Validate_part_005(in, e) ==
  IF MethodCheck(in) # 0 THEN MethodCheck(in)
  ELSE IF in.body = "null" THEN 500
  ELSE IF ~in.userId \/ in.amount.k = "none" THEN 400
  ELSE IF BadAmountParseInt(in.amount) THEN 400
  ELSE IF ~e.rzp THEN 500
  ELSE 0

\* The configuration check (credentials, endpoint, project, collection, the
\* x-appwrite-key header) comes first; parseJSON as in part_008.
Validate_index_js(in, e) ==
  IF ~e.rzp \/ ~e.aw \/ in.hdr = NoHeader THEN 500
  ELSE IF MethodCheck(in) # 0 THEN MethodCheck(in)
  ELSE IF in.body = "null" THEN 500
  ELSE IF BadAmountNumber(in.amount) THEN 400
  ELSE 0

\* The express route app.post("/create-order") behind express.json(): another
\* verb finds no route (404), a body that is no JSON object or array is
\* rejected by the body parser (400); then !amount || !userId.
Validate_part_003a(in, e) ==
  IF in.method # "POST" THEN 404
  ELSE IF in.body # "object" THEN 400
  ELSE IF in.amount.k = "none" \/ (in.amount.k = "num" /\ in.amount.c = 0) THEN 400
  ELSE IF ~in.userId THEN 400
  ELSE 0

Validate(h, in, e) ==
  CASE h = "part_006" -> Validate_part_006(in, e)
    [] h = "part_007" -> Validate_part_007(in, e)
    [] h = "part_013c" -> Validate_part_013c(in, e)
    [] h = "part_009a" -> Validate_part_009a(in, e)
    [] h = "part_012" -> Validate_part_012(in, e)
    [] h = "part_008" -> Validate_part_008(in, e)
    [] h = "part_003c" -> Validate_part_003c(in, e)
    [] h = "part_009t" -> Validate_part_009t(in, e)
    [] h = "part_013d" -> Validate_part_013d(in, e)
    [] h = "part_005" -> Validate_part_005(in, e)
    [] h = "index_js" -> Validate_index_js(in, e)
    [] h = "part_003a" -> Validate_part_003a(in, e)

\* The response of a handler that ends before its first await: the liveness
\* text, a message the handler wrote, or the outer catch with the exception's
\* message (a Razorpay constructor or a body that made the handler throw).
\* The 404 and the body parser's 400 of the express variant are the
\* framework's text pages.
EarlyResponse(h, in, e, code) ==
  IF code = 200 THEN Live
  ELSE IF h = "part_003a" /\ (code = 404 \/ in.body # "object")
  THEN [Fail(code) EXCEPT !.success = "text"]
  ELSE IF code # 500 THEN Fail(code)
  ELSE IF h \in {"part_006", "part_007", "part_013c", "part_009a"} THEN Fail(500)
  ELSE IF h = "index_js" /\ (~e.rzp \/ ~e.aw \/ in.hdr = NoHeader) THEN Fail(500)
  ELSE Caught

\* The amount (paise) the handler sends to razorpay.orders.create.
GatewayAmount(h, in) ==
  IF h \in {"part_003c", "part_009t", "part_013d", "part_005"}
  THEN ParseInt(in.amount) * 100
  ELSE AmountPaiseFromClient(in.amount)


\* ---------------------------------------------------------------- documents
\* key: razorpay_order_id / orderId (the natural key); amountPaise: the stored
\* minor-unit amount; pm: payment_method; status; payId: razorpay_payment_id;
\* vraw: verification_raw ("order": the serialized gateway order).
\* itemsLen: characters of the longest stored line-item label; itemsJson: what
\* items_json holds ("full": the complete serialization, "prefix": its first
\* characters only, "null", "absent": the payload has no such attribute);
\* shipUsed: position in the shipping array of the element whose fields are
\* flattened (0: none, the fields are empty); shipLen: elements of the stored
\* shipping sequence (0: no sequence is stored); sizeFrom: position of the line
\* item whose size is stored (0: no size, null or "N/A").
Doc(k, amt, pm, st, pay, vr) ==
  [key |-> k, amountPaise |-> amt, pm |-> pm, status |-> st, payId |-> pay, vraw |-> vr,
   itemsLen |-> 0, itemsJson |-> "absent", shipUsed |-> 0, shipLen |-> 0, sizeFrom |-> 0]

\* The per-label limit of a handler (0: labels are stored as they came).
MAX_APPUTABLE_LEN == 490
MAX_LABEL_LEN == 490
TRUNCATE_MAX == 9999
SummaryLimit(h) ==
  CASE h = "part_003c" -> MAX_APPUTABLE_LEN
    [] h = "part_005" -> MAX_LABEL_LEN
    [] h = "part_007" -> TRUNCATE_MAX
    [] h \in {"part_006", "part_003a"} -> 9999
    [] h = "index_js" -> 999
    [] OTHER -> 0

\* Length of the stored form of a label of n characters: s.slice(0, L) + "..."
\* (one character, U+2026) in part_003c and part_005, s.slice(0, L) elsewhere.
Summary(h, n) ==
  CASE h \in {"part_003c", "part_005"} ->
         (IF n > SummaryLimit(h) THEN SummaryLimit(h) + 1 ELSE n)
    [] SummaryLimit(h) # 0 -> (IF n > SummaryLimit(h) THEN SummaryLimit(h) ELSE n)
    [] OTHER -> n

\* items_json of the payload, for a serialization of n characters.
MAX_JSON_SAVE == 10 * 1024
ItemsJson(h, n) ==
  CASE h = "part_005" -> (IF n <= MAX_JSON_SAVE THEN "full" ELSE "null")
    [] h = "part_003a" -> (IF n > 999 THEN "prefix" ELSE "full")
    [] h \in {"part_013c", "part_012"} -> "absent"
    [] OTHER -> "full"

\* shippingArray[primaryIndex] || shippingArray[0] || {}, with primaryIndex =
\* Number.isInteger(shippingPrimaryIndex) ? shippingPrimaryIndex : 0. The result
\* is the 1-based position of the element, 0 for {}.
PrimaryShipping(len, idx) ==
  LET primaryIndex == IF idx.k = "int" THEN idx.v ELSE 0 IN
  IF primaryIndex >= 0 /\ primaryIndex < len THEN primaryIndex + 1
  ELSE IF len > 0 THEN 1
  ELSE 0

ShipUsed(h, in) ==
  IF h \in IndexedShippingHandlers THEN PrimaryShipping(in.shipLen, in.shipIdx)
  ELSE IF in.shipLen > 0 THEN 1 ELSE 0

\* The shipping sequence the payload keeps whole (shipping_json / shipping).
ShipStored(h, in) ==
  IF h \in IndexedShippingHandlers \cup {"part_012"} THEN in.shipLen ELSE 0

\* The line item whose size the payload stores: the first item with a size
\* (items[0].size, else items.find), or the first item only.
SizeFrom(h, in) ==
  CASE h \in {"part_006", "part_007"} -> in.sizeAt
    [] h \in {"part_005", "index_js"} -> (IF in.sizeAt = 1 THEN 1 ELSE 0)
    [] OTHER -> 0

\* The minor-unit amount a handler stores.
StoredAmount(h, rq) ==
  CASE h \in {"part_008", "index_js", "part_003a"} -> AmountPaiseFromClient(rq.in.amount)
    [] h \in {"part_006", "part_007", "part_013c", "part_009a"} ->
         (IF PmOf(h, rq.in) = "razorpay" THEN rq.order.amount
          ELSE AmountPaiseFromClient(rq.in.amount))
    [] OTHER -> rq.order.amount

\* status of the payload.
StatusOf(h, rq) ==
  CASE h \in {"part_006", "part_007", "part_013c"} ->
         (IF PmOf(h, rq.in) = "cod" THEN "pending" ELSE "created")
    [] h \in {"part_012", "part_008", "index_js"} -> "created"
    [] OTHER -> "unpaid"

\* The document a handler sends to createDocument / updateDocument.
Payload(h, rq) ==
  [Doc(rq.key, StoredAmount(h, rq),
       IF h \in {"part_006", "part_007", "part_013c"} THEN PmOf(h, rq.in) ELSE "none",
       StatusOf(h, rq), "none",
       IF h \in {"part_006", "part_007"}
       THEN "order" ELSE "none")
   EXCEPT !.itemsLen = Summary(h, rq.in.labelLen),
          !.itemsJson = ItemsJson(h, rq.in.jsonLen),
          !.shipUsed = ShipUsed(h, rq.in),
          !.shipLen = ShipStored(h, rq.in),
          !.sizeFrom = SizeFrom(h, rq.in)]

\* The attributes the payload of a handler carries; updateDocument changes
\* these and leaves the others as they are.
ItemFields == {"itemsLen", "itemsJson", "shipUsed", "shipLen", "sizeFrom"}
PayloadFields(h) ==
  ItemFields \cup
  CASE h \in {"part_006", "part_007"} -> {"key", "amountPaise", "pm", "status", "vraw"}
    [] h = "part_013c" -> {"key", "amountPaise", "pm", "status"}
    [] h = "part_012" -> {"key", "amountPaise", "status"}
    [] OTHER -> {"key", "amountPaise", "status", "payId", "vraw"}

\* databases.updateDocument(id, payload): a partial update.
Patch(d, pl, fields) == [f \in DOMAIN d |-> IF f \in fields THEN pl[f] ELSE d[f]]

\* listDocuments([Query.equal(key), Query.limit(1)]): the first match.
Matches(st, k) == { i \in DOMAIN st : st[i].key = k }
\* (a lookup that never finds the document)
FirstMatchNone(st, k) == NoDoc

FirstMatch(st, k) ==
  IF Matches(st, k) = {} THEN NoDoc
  ELSE CHOOSE i \in Matches(st, k) : \A j \in Matches(st, k) : i <= j

\* ---------------------------------------------------------------- responses
\* The response after the store write settled (ok) or threw (~ok); doc is the
\* $id of the saved document.
WriteResponse(h, rq, ok, doc) ==
  CASE h \in {"part_006", "part_007"} ->
         (IF ok THEN Response(200, "true", rq.key, StoredAmount(h, rq), doc, "absent", FALSE)
          ELSE Response(500, "false", NoKey, 0, NoDoc, "absent", TRUE))
    [] h = "part_013c" ->
         Response(200, "true",
                  IF rq.order.id # NoKey THEN rq.order.id ELSE IF ok THEN rq.key ELSE NoKey,
                  StoredAmount(h, rq), IF ok THEN doc ELSE NoDoc, "absent", FALSE)
    [] h = "part_012" ->
         Response(200, "true", rq.order.id, rq.order.amount,
                  IF ok THEN doc ELSE NoDoc, "absent", FALSE)
    [] h = "part_003c" ->
         (IF ok THEN Response(200, "true", rq.order.id, rq.order.amount, doc, "true", FALSE)
          ELSE Response(200, "true", rq.order.id, rq.order.amount, NoDoc, "false", TRUE))
    [] h = "part_013d" ->
         (IF ok THEN Response(200, "true", rq.order.id, rq.order.amount, doc, "absent", FALSE)
          ELSE Response(500, "false", rq.order.id, rq.order.amount, NoDoc, "absent", TRUE))
    [] h = "part_008" ->
         (IF ok THEN Response(201, "true", rq.order.id, rq.order.amount, doc, "absent", FALSE)
          ELSE Response(500, "false", NoKey, 0, NoDoc, "absent", TRUE))
    [] h = "index_js" ->
         (IF ok THEN Response(201, "true", rq.order.id, rq.order.amount, doc, "absent",
                              rq.op = "fallback")
          ELSE Response(500, "false", NoKey, 0, NoDoc, "absent", TRUE))
    [] h = "part_003a" ->
         (IF ok THEN Response(200, "true", rq.order.id, rq.order.amount, doc, "absent", FALSE)
          ELSE Response(500, "false", NoKey, 0, NoDoc, "absent", TRUE))
    [] OTHER -> rq.resp

\* The success response of a handler that skips the store (not configured, or
\* the payload could not be built).
SkipResponse(h, rq) ==
  Response(200, "true",
           IF h \in {"part_006", "part_007"} THEN rq.key ELSE rq.order.id,
           IF h = "part_012" THEN rq.order.amount ELSE StoredAmount(h, rq),
           NoDoc, "absent", FALSE)

\* Variants that take the store's endpoint, project, key, database and
\* collection from process.env (the others carry fixed ids in their code).
ReadsStoreEnv(h) ==
  h \in {"part_006", "part_007", "part_013c", "part_009a", "part_012", "part_008", "index_js",
         "part_003a"}

\* (a background write whose callbacks respond as well)
AwaitsWriteAll(h) == TRUE

\* The handler awaits the store write before it responds (the other variants
\* start createDocument(...).then(...).catch(...) and do not wait for it; their
\* callbacks only log).
AwaitsWrite(h) == h \notin {"part_009t", "part_005"}

\* The response to a rejected or timed-out gateway call.
GatewayFailResponse(h) == IF h \in TimeoutHandlers THEN Fail(503) ELSE Caught


\* ---------------------------------------------------------------- handler steps
\* The natural key once the order exists: the gateway order id, or the
\* synthesized COD token.
KeyOf(rq, cod) == IF rq.order.id # NoKey THEN rq.order.id ELSE cod

IssueLookup(rq, k) ==
  [rq EXCEPT !.key = k, !.pc = "lookup", !.lookup = "pending", !.storeCalls = @ + 1]

IssueCreate(rq, k) ==
  [rq EXCEPT !.key = k, !.pc = "write", !.op = "create", !.storeCalls = @ + 1]

\* res.json / res.text / res.send: the handler produces a response (nResp
\* counts them).
Send(rq, rsp) == [rq EXCEPT !.resp = rsp, !.nResp = @ + 1]

\* return res.json(...): the response ends the handler.
Respond(rq, rsp) == [Send(rq, rsp) EXCEPT !.pc = "done"]

\* The handler from the point where the order exists (gateway order created or
\* COD branch taken) up to its next await or its response.
Continue(h, e, rq, cod) ==
  CASE h \in {"part_006", "part_007"} ->
         (LET kq == [rq EXCEPT !.key = KeyOf(rq, cod)] IN
          IF e.aw THEN IssueLookup(rq, KeyOf(rq, cod))
          ELSE Respond(kq, SkipResponse(h, kq)))
    [] h \in {"part_013c", "part_012"} ->
         (IF e.aw THEN IssueLookup(rq, KeyOf(rq, cod))
          ELSE Respond([rq EXCEPT !.key = rq.order.id], SkipResponse(h, rq)))
    [] h = "part_009a" ->
         Respond([rq EXCEPT !.key = rq.order.id], SkipResponse(h, rq))
    [] h \in {"part_003c", "part_013d", "index_js"} -> IssueCreate(rq, rq.order.id)
    [] h \in {"part_009t", "part_005"} ->
         Send(IssueCreate(rq, rq.order.id),
              Response(200, "true", rq.order.id, rq.order.amount, NoDoc, "absent", FALSE))
    [] h = "part_008" ->
         (IF e.aw THEN IssueCreate(rq, rq.order.id)
          ELSE Respond([rq EXCEPT !.key = rq.order.id], Fail(500)))
    [] h = "part_003a" ->
         (IF e.aw THEN IssueCreate(rq, rq.order.id)
          ELSE Respond([rq EXCEPT !.key = rq.order.id], Caught))

\* Date.now() when a receipt is built: not before the Date.now() of any earlier
\* receipt, and possibly the same millisecond.
LastTick(rqs) ==
  CHOOSE t \in 0..MaxReq : /\ \A q \in Requests : rqs[q].tick <= t
                          /\ (t = 0 \/ \E q \in Requests : rqs[q].tick = t)
Ticks(rqs) == IF LastTick(rqs) = 0 THEN {1} ELSE {LastTick(rqs), LastTick(rqs) + 1}

\* The random suffix of the receipt (0: the receipt has none).
SuffixesOf(h) == IF h \in RandomReceiptHandlers THEN RandSuffixes ELSE {0}

\* client.setKey(req.headers["x-appwrite-key"]) on the module-level client, when
\* the request carries the header.
SetKey(h, rq, ck) ==
  IF h \in SharedClientHandlers /\ rq.in.hdr # NoHeader THEN rq.in.hdr ELSE ck

\* The API key of the client a handler issues its store write with.
AuthKey(h, rq, ck) ==
  CASE h \in SharedClientHandlers -> ck
    [] h \in HeaderKeyHandlers -> rq.in.hdr
    [] OTHER -> EnvKey

\* Records the key of a write that has just been issued.
Issued(h, rq, ck) ==
  IF rq.pc = "write" /\ rq.auth = Unissued
  THEN [rq EXCEPT !.auth = AuthKey(h, rq, ck)] ELSE rq

\* The express variant constructs its Razorpay client when the module loads:
\* without the credentials the constructor throws and the server never listens.
Serving(h, e) == h = "part_003a" => e.rzp

\* A request arrives: the handler runs up to its first await. t is Date.now()
\* and n the random number at the time the receipt is built.
Invoke(r, in, t, n) ==
  /\ Serving(handler, env)
  /\ req[r].pc = "idle"
  /\ \A q \in Requests : q < r => req[q].pc # "idle"
  /\ t \in Ticks(req)
  /\ n \in SuffixesOf(handler)
  /\ LET code == Validate(handler, in, env)
         rq == [req[r] EXCEPT !.in = in]
     IN  IF code # 0
         THEN req' = [req EXCEPT ![r] = Respond(rq, EarlyResponse(handler, in, env, code))]
         ELSE IF PmOf(handler, in) = "razorpay"
         THEN req' = [req EXCEPT ![r] =
                        [rq EXCEPT !.pc = "gateway", !.gw = "pending",
                                   !.sent = GatewayAmount(handler, in),
                                   !.gwCalls = @ + 1,
                                   !.tick = t, !.rand = n]]
         ELSE \E cod \in CodIds :
                req' = [req EXCEPT ![r] =
                          Issued(handler, Continue(handler, env, rq, cod), clientKey)]
  /\ UNCHANGED <<handler, env, store, nVerify, clientKey>>

\* razorpay.orders.create resolves with an order (never for an amount of NaN,
\* which is serialized as null).
GatewayResolve(r, id, skew) ==
  /\ req[r].pc = "gateway"
  /\ req[r].sent # NaN
  /\ LET rq == [req[r] EXCEPT !.gw = "ok",
                              !.order = [id |-> id, amount |-> req[r].sent + skew]]
     IN  /\ clientKey' = SetKey(handler, rq, clientKey)
         /\ req' = [req EXCEPT ![r] =
                      Issued(handler, Continue(handler, env, rq, NoKey),
                             SetKey(handler, rq, clientKey))]
  /\ UNCHANGED <<handler, env, store, nVerify>>

\* (a catch that logs the gateway error and goes on to the store write)
GatewayRejectFallsThrough(r) ==
  /\ req[r].pc = "gateway"
  /\ req' = [req EXCEPT ![r] = IssueCreate([@ EXCEPT !.gw = "rejected"], NoKey)]
  /\ UNCHANGED <<handler, env, store, nVerify, clientKey>>

\* razorpay.orders.create rejects.
GatewayReject(r) ==
  /\ req[r].pc = "gateway"
  /\ req' = [req EXCEPT ![r] =
               Respond([@ EXCEPT !.gw = "rejected"], GatewayFailResponse(handler))]
  /\ UNCHANGED <<handler, env, store, nVerify, clientKey>>

\* The timer of promiseWithTimeout fires before the gateway call settles.
GatewayTimeout(r) ==
  /\ handler \in TimeoutHandlers
  /\ req[r].pc = "gateway"
  /\ req' = [req EXCEPT ![r] = Respond([@ EXCEPT !.gw = "timeout"], Fail(503))]
  /\ UNCHANGED <<handler, env, store, nVerify, clientKey>>

\* (a handler that goes on with the order of the abandoned call)
LateGatewayContinues(r) ==
  /\ req[r].gw = "timeout"
  /\ \E id \in GwIds :
       req' = [req EXCEPT ![r] =
                 IssueCreate([@ EXCEPT !.gw = "late",
                                       !.order = [id |-> id, amount |-> req[r].sent]], id)]
  /\ UNCHANGED <<handler, env, store, nVerify, clientKey>>

\* The abandoned gateway call settles after the timeout: resolve / reject of
\* the already rejected promise do nothing.
LateGateway(r) ==
  /\ req[r].gw = "timeout"
  /\ req' = [req EXCEPT ![r].gw = "late"]
  /\ UNCHANGED <<handler, env, store, nVerify, clientKey>>

\* (a handler that answers 500 when the lookup throws)
LookupDoneAborts(r, ok) ==
  /\ req[r].pc = "lookup"
  /\ LET found == IF ok THEN FirstMatch(store, req[r].key) ELSE NoDoc
     IN  req' = [req EXCEPT ![r] =
                   IF ~ok THEN Respond([@ EXCEPT !.lookup = "failed"], Fail(500))
                   ELSE Issued(handler,
                          [@ EXCEPT !.lookup = "ok",
                                    !.existing = found,
                                    !.op = IF found # NoDoc THEN "update" ELSE "create",
                                    !.pc = "write",
                                    !.storeCalls = @ + 1],
                          clientKey)]
  /\ UNCHANGED <<handler, env, store, nVerify, clientKey>>

\* listDocuments settles (ok) or throws (~ok); the handler issues the write.
LookupDone(r, ok) ==
  /\ req[r].pc = "lookup"
  /\ LET found == IF ok THEN FirstMatch(store, req[r].key) ELSE NoDoc
     IN  req' = [req EXCEPT ![r] =
                   Issued(handler,
                     [@ EXCEPT !.lookup = IF ok THEN "ok" ELSE "failed",
                               !.existing = found,
                               !.op = IF found # NoDoc THEN "update" ELSE "create",
                               !.pc = "write",
                               !.storeCalls = @ + 1],
                     clientKey)]
  /\ UNCHANGED <<handler, env, store, nVerify, clientKey>>

\* createDocument / updateDocument settles (ok) or throws (~ok); the handler
\* responds (the fire-and-forget variants have responded already). index.js
\* answers a failed primary createDocument with a second createDocument of the
\* fallback payload.
WriteDone(r, ok) ==
  /\ req[r].pc = "write"
  /\ ok /\ req[r].op \in {"create", "fallback"} => Len(store) < MaxDocs
  /\ LET rq == req[r]
         doc == IF rq.op = "update" THEN rq.existing ELSE Len(store) + 1
     IN  /\ store' =
              IF ~ok THEN store
              ELSE IF rq.op = "update"
              THEN [store EXCEPT ![rq.existing] =
                      Patch(@, Payload(handler, rq), PayloadFields(handler))]
              ELSE Append(store, Payload(handler, rq))
         /\ req' = [req EXCEPT ![r] =
                      IF handler = "index_js" /\ ~ok /\ rq.op = "create"
                      THEN [rq EXCEPT !.op = "fallback", !.storeCalls = @ + 1]
                      ELSE LET fin == [rq EXCEPT !.pc = "done",
                                                 !.wres = IF ok THEN "ok" ELSE "failed"]
                           IN  IF AwaitsWrite(handler)
                               THEN Send(fin, WriteResponse(handler, rq, ok, doc))
                               ELSE fin]
  /\ UNCHANGED <<handler, env, nVerify, clientKey>>

\* The payment-verification collaborator confirms the payment of a gateway order.
Verify(d) ==
  /\ nVerify < MaxVerify
  /\ d \in DOMAIN store
  /\ store[d].key \in GwIds
  /\ store[d].status # "paid"
  /\ store' = [store EXCEPT ![d] =
                 [@ EXCEPT !.status = "paid", !.payId = "pay_1", !.vraw = "verified"]]
  /\ nVerify' = nVerify + 1
  /\ UNCHANGED <<handler, env, req, clientKey>>

\* ---------------------------------------------------------------- specifications
\* Requests that arrive in different milliseconds.
FirstSuffix(h) == CHOOSE n \in SuffixesOf(h) : \A m \in SuffixesOf(h) : n <= m
Receive ==
  \E r \in Requests, in \in LeanInputs :
    Invoke(r, in, LastTick(req) + 1, FirstSuffix(handler))
GatewayOk == \E r \in Requests, id \in GwIds, skew \in GwSkew : GatewayResolve(r, id, skew)
GatewayErr == \E r \in Requests : GatewayReject(r)
TimerFires == \E r \in Requests : GatewayTimeout(r)
GatewayLate == \E r \in Requests : LateGateway(r)
Lookup == \E r \in Requests, ok \in BOOLEAN : LookupDone(r, ok)
Write == \E r \in Requests, ok \in BOOLEAN : WriteDone(r, ok)
Verification == \E d \in 1..MaxDocs : Verify(d)

Next ==
  \/ Receive
  \/ GatewayOk
  \/ GatewayErr
  \/ TimerFires
  \/ GatewayLate
  \/ Lookup
  \/ Write
  \/ Verification

Spec == Init /\ [][Next]_vars

\* One request, any payload: the validation paths.
ReceiveAny == \E in \in RichInputs : Invoke(1, in, 1, FirstSuffix(handler))

NextValidate ==
  \/ ReceiveAny
  \/ GatewayOk
  \/ GatewayErr
  \/ TimerFires
  \/ GatewayLate
  \/ Lookup
  \/ Write
  \/ Verification

SpecValidate == Init /\ [][NextValidate]_vars

\* Gateway requests with and without the key header, arriving in the same or
\* in different milliseconds.
ReceiveKeyed ==
  \E r \in Requests, in \in KeyedInputs, t \in 1..MaxReq, n \in RandSuffixes \cup {0} :
    Invoke(r, in, t, n)

NextShared ==
  \/ ReceiveKeyed
  \/ GatewayOk
  \/ GatewayErr
  \/ TimerFires
  \/ GatewayLate
  \/ Lookup
  \/ Write
  \/ Verification

SpecShared == Init /\ [][NextShared]_vars


\* The handler steps are scheduled by the event loop: a timer that was set
\* fires, and a store call that was issued settles. Nothing makes the gateway
\* answer.
Fairness ==
  /\ \A r \in Requests : WF_vars(GatewayTimeout(r))
  /\ \A r \in Requests : WF_vars(\E ok \in BOOLEAN : LookupDone(r, ok))
  /\ \A r \in Requests : WF_vars(\E ok \in BOOLEAN : WriteDone(r, ok))

FairSpec == Init /\ [][Next]_vars /\ Fairness

\* ---------------------------------------------------------------- properties
Responded(r) == req[r].resp.status # 0
Configured == env.rzp /\ env.aw
GatewayFailed(r) == req[r].gw \in {"rejected", "timeout", "late"}
NoCalls(r) == req[r].gwCalls = 0 /\ req[r].storeCalls = 0

\* C1: in every reachable state of the store at most one order document
\* exists per natural key, for the variants that look the key up before
\* they insert.
C1_AtMostOnePerKey ==
  handler \in UpsertHandlers =>
    \A i, j \in DOMAIN store : store[i].key = store[j].key => i = j

\* C2: a lookup that succeeds while a document with the request's natural key
\* is in the store finds such a document and makes the handler issue
\* updateDocument on its $id; that update adds no document, keeps the key of
\* the document and leaves the number of documents with that key as it was.
C2_SequentialUpsert ==
  [][\A r \in Requests :
       /\ ( /\ req[r].pc = "lookup"
            /\ req'[r].pc = "write"
            /\ req'[r].lookup = "ok"
            /\ Matches(store, req[r].key) # {} )
          => ( /\ req'[r].existing \in Matches(store, req[r].key)
               /\ req'[r].op = "update" )
       /\ ( /\ req[r].pc = "write"
            /\ req'[r].pc = "done"
            /\ req[r].lookup = "ok"
            /\ req[r].existing # NoDoc
            /\ req'[r].wres = "ok" )
          => ( /\ req[r].op = "update"
               /\ Len(store') = Len(store)
               /\ store'[req[r].existing].key = req[r].key
               /\ Cardinality(Matches(store', req[r].key))
                    = Cardinality(Matches(store, req[r].key)) )
    ]_vars

\* A second intake has updated the document the first intake created, and the
\* store holds exactly one document with their key.
C2_Witness ==
  \E r1, r2 \in Requests :
    /\ r1 # r2
    /\ req[r1].pc = "done" /\ req[r1].op = "create" /\ req[r1].wres = "ok"
    /\ req[r2].pc = "done" /\ req[r2].op = "update" /\ req[r2].wres = "ok"
    /\ req[r2].lookup = "ok"
    /\ req[r1].key = req[r2].key
    /\ req[r2].existing = req[r1].resp.savedDoc
    /\ Cardinality(Matches(store, req[r2].key)) = 1

\* C3: when the gateway order exists and the awaited store write failed, the response
\* reports success with the gateway order's id and amount and flags the record
\* as not persisted, with the store error; it is no success:false and no 5xx.
C3_WriteFailureNotEscalated ==
  \A r \in Requests :
    (AwaitsWrite(handler) /\ req[r].gw = "ok" /\ req[r].wres = "failed" /\ Responded(r)) =>
      /\ req[r].resp.success = "true"
      /\ req[r].resp.status < 500
      /\ req[r].resp.orderId = req[r].order.id
      /\ req[r].resp.amount = req[r].order.amount
      /\ req[r].resp.dbSaved = "false"
      /\ req[r].resp.dbError

\* C4: a request whose gateway order creation failed (rejected, or timed out)
\* has made no store call, neither a lookup nor a write, and its handler has
\* finished, so it makes none later.
C4_NoStoreCallAfterGatewayFailure ==
  \A r \in Requests :
    GatewayFailed(r) =>
      /\ req[r].storeCalls = 0
      /\ req[r].lookup = "none"
      /\ req[r].op = "none"
      /\ req[r].pc = "done"
      /\ store # << >> => \E q \in Requests : q # r /\ req[q].storeCalls > 0

\* One gateway call timed out and settled late, another was rejected.
C4_Witness ==
  \E r1, r2 \in Requests :
    /\ req[r1].gw = "late" /\ Responded(r1)
    /\ req[r2].gw = "rejected" /\ Responded(r2)

\* C5: every failed gateway order creation is answered success:false with
\* status 503.
C5_GatewayFailureIs503 ==
  \A r \in Requests :
    (GatewayFailed(r) /\ Responded(r)) =>
      (req[r].resp.status = 503 /\ req[r].resp.success = "false")

\* C6: a request that waits for the gateway is eventually answered, whether
\* or not the gateway call ever completes.
C6_EventuallyResponds ==
  \A r \in Requests : (req[r].pc = "gateway") ~> Responded(r)

\* C7: a POST without a customer id is answered 400 and causes no gateway call
\* and no store call (with the credentials and the store configured).
C7_NoUserIdRejected ==
  \A r \in Requests :
    (Configured /\ req[r].pc # "idle" /\ req[r].in.method = "POST" /\ ~req[r].in.userId) =>
      /\ req[r].resp.status = 400
      /\ req[r].gwCalls = 0
      /\ req[r].storeCalls = 0

\* C8: a gateway-payment POST whose amount is missing, non-numeric or <= 0 is
\* answered 400 with no gateway call and no store call, and an otherwise valid
\* one whose amount is a number > 0 is not answered 400.
C8_AmountValidation ==
  \A r \in Requests :
    ( /\ Configured
      /\ req[r].pc # "idle"
      /\ req[r].in.method = "POST"
      /\ req[r].in.userId
      /\ req[r].in.pm \in {"razorpay", "none"}
      /\ PmOf(handler, req[r].in) = "razorpay" ) =>
      /\ ~NumericPositive(req[r].in.amount) =>
           (req[r].resp.status = 400 /\ req[r].gwCalls = 0 /\ req[r].storeCalls = 0)
      /\ (NumericPositive(req[r].in.amount) /\ req[r].in.shipping /\ req[r].in.size) =>
           req[r].resp.status # 400

\* C9: the minor-unit amount of the document written for a gateway order is
\* the amount of the order the gateway returned.
C9_StoredAmountIsGatewayAmount ==
  \A r \in Requests :
    (req[r].gw = "ok" /\ req[r].wres = "ok") =>
      \E i \in DOMAIN store :
        store[i].key = req[r].order.id /\ store[i].amountPaise = req[r].order.amount

\* C10: a document the verification collaborator has marked paid keeps
\* status 'paid' and its payment confirmation fields in every later step.
C10_PaidIsNotOverwritten ==
  [][\A d \in DOMAIN store :
       store[d].status = "paid" =>
         /\ store'[d].status = "paid"
         /\ store'[d].payId = store[d].payId
         /\ store'[d].vraw = store[d].vraw
    ]_vars

\* C11: when a success response to a gateway-payment request has been sent,
\* the store write of that request is not in flight any more: it has settled,
\* and either a document with the gateway order id is in the store or the
\* response reports the store's error.
C11_WriteAwaitedBeforeResponse ==
  \A r \in Requests :
    (req[r].gw = "ok" /\ Responded(r) /\ req[r].resp.success = "true") =>
      /\ req[r].pc # "write"
      /\ req[r].storeCalls > 0 =>
           (Matches(store, req[r].order.id) # {} \/ req[r].resp.dbError)

\* C12: a request calls razorpay.orders.create at most once; exactly once when
\* it passed validation as a gateway payment; never when its payment method is
\* cash-on-delivery.
C12_OneGatewayCallPerRequest ==
  \A r \in Requests :
    req[r].pc # "idle" =>
      /\ req[r].gwCalls <= 1
      /\ (Validate(handler, req[r].in, env) = 0 /\ req[r].in.pm \in {"razorpay", "none"})
           => req[r].gwCalls = 1
      /\ req[r].in.pm = "cod" => req[r].gwCalls = 0

\* C13: a valid cash-on-delivery request makes no gateway call and is answered
\* success with a synthesized cod_<digits>_<digits> token as order id, whether
\* the store write was skipped, failed or succeeded; the document it wrote
\* has that token as key and status 'pending'.
C13_CodTokenInResponse ==
  \A r \in Requests :
    ( /\ req[r].pc = "done"
      /\ PmOf(handler, req[r].in) = "cod"
      /\ Validate(handler, req[r].in, env) = 0 ) =>
      /\ req[r].gwCalls = 0
      /\ req[r].resp.success = "true"
      /\ req[r].resp.orderId \in CodIds
      /\ req[r].wres = "ok" =>
           \E d \in DOMAIN store :
             store[d].key = req[r].resp.orderId /\ store[d].status = "pending"

\* C14: when a setting the request needs is missing (the store settings, or
\* the gateway credentials of a gateway payment), a POST is answered with a
\* failure and causes neither a gateway call nor a store call.
C14_ConfigurationFailsClosed ==
  \A r \in Requests :
    ( /\ req[r].pc # "idle"
      /\ req[r].in.method = "POST"
      /\ \/ ~env.aw /\ ReadsStoreEnv(handler)
         \/ ~env.rzp /\ PmOf(handler, req[r].in) = "razorpay" ) =>
      /\ NoCalls(r)
      /\ Responded(r) => req[r].resp.success = "false"

\* C15: the store write of a request is issued with the x-appwrite-key of
\* that request (or with the configured API key), never with a key another
\* request has set.
C15_NoKeyLeak ==
  \A r \in Requests :
    req[r].auth # Unissued => req[r].auth \in {req[r].in.hdr, EnvKey}

\* C16: no two gateway order creations carry the same receipt.
C16_ReceiptsDistinct ==
  \A r1, r2 \in Requests :
    (r1 # r2 /\ req[r1].gwCalls > 0 /\ req[r2].gwCalls > 0) =>
      <<req[r1].tick, req[r1].rand>> # <<req[r2].tick, req[r2].rand>>

\* C17: a GET is answered with the liveness text and any other verb but POST
\* with 405, without a gateway call or a store call, whatever the body and the
\* configuration.
C17_NonPostVerbs ==
  \A r \in Requests :
    (req[r].pc # "idle" /\ req[r].in.method # "POST") =>
      /\ NoCalls(r)
      /\ req[r].in.method = "GET" => req[r].resp = Live
      /\ req[r].in.method # "GET" => req[r].resp.status = 405

\* C18: a POST whose body holds no JSON object is answered with a 4xx status
\* and causes no gateway call and no store call.
C18_MalformedPayloadIs400 ==
  \A r \in Requests :
    ( /\ Configured
      /\ req[r].pc # "idle"
      /\ req[r].in.method = "POST"
      /\ req[r].in.hdr # NoHeader
      /\ req[r].in.body # "object" ) =>
      /\ req[r].resp.status \in 400..499
      /\ NoCalls(r)

\* C19: no response carries the text of a caught exception, neither the
\* store's error nor the message the outer catch received.
C19_NoExceptionDetail ==
  \A r \in Requests :
    Responded(r) => (~req[r].resp.dbError /\ ~req[r].resp.errText)

\* C20: the documents in the store have the status intake gives them, 'created'
\* under a gateway order id and 'pending' under a COD token, unless the
\* verification collaborator has marked them paid.
C20_InitialStatus ==
  \A d \in DOMAIN store :
    \/ store[d].status = "paid"
    \/ store[d].key \in GwIds /\ store[d].status = "created"
    \/ store[d].key \in CodIds /\ store[d].status = "pending"

\* C21: when a handler has finished a request that obtained its natural key
\* (gateway order created, or valid cash-on-delivery request), the store is
\* configured and no store call of the request failed, then a document with
\* the request's key is in the store and the success response names the saved
\* document.
C21_RecordCreatedAtIntake ==
  \A r \in Requests :
    ( /\ req[r].pc = "done"
      /\ env.aw
      /\ \/ req[r].gw = "ok"
         \/ PmOf(handler, req[r].in) = "cod" /\ Validate(handler, req[r].in, env) = 0
      /\ req[r].lookup # "failed"
      /\ req[r].wres # "failed" ) =>
      /\ req[r].key # NoKey
      /\ Matches(store, req[r].key) # {}
      /\ req[r].resp.success = "true"
      /\ req[r].resp.savedDoc # NoDoc

\* C22: the amount a gateway call carries is the client's amount in
\* hundredths, the fractional part included.
C22_GatewayAmountIsRounded ==
  \A r \in Requests :
    (req[r].gwCalls > 0 /\ req[r].in.amount.k = "num") =>
      req[r].sent = req[r].in.amount.c

\* C23: for a handler with a label limit L, every stored line-item summary is
\* at most L characters long, a summary that was longer than L is stored with
\* exactly L characters (the truncation marker included), and a summary within
\* the limit is stored as it is (never dropped).
C23_TruncationLaw ==
  \A r \in Requests : \A d \in DOMAIN store :
    ( /\ req[r].wres = "ok"
      /\ store[d].key = req[r].key
      /\ SummaryLimit(handler) # 0 ) =>
      LET L == SummaryLimit(handler)
          n == req[r].in.labelLen
          m == store[d].itemsLen
      IN  /\ m <= L
          /\ n > L => m = L
          /\ n <= L => m = n

\* C24: items_json of a stored record is the complete serialization of the
\* line items, or null / absent, never a prefix of the serialization; and the
\* handler that has a size threshold (10 KB) stores no serialization longer
\* than the threshold.
C24_ItemsJsonWholeOrAbsent ==
  \A r \in Requests : \A d \in DOMAIN store :
    ( /\ req[r].wres = "ok"
      /\ store[d].key = req[r].key ) =>
      /\ store[d].itemsJson \in {"full", "null", "absent"}
      /\ (handler = "part_005" /\ req[r].in.jsonLen > MAX_JSON_SAVE) =>
           store[d].itemsJson \in {"null", "absent"}

\* C25: the flattened shipping fields of a stored record come from the element
\* at shippingPrimaryIndex clamped into [0, length-1] (absent, non-integer or
\* negative: element 0; index >= length: the last element), and the whole
\* shipping sequence is stored.
C25_PrimaryShippingClamped ==
  \A r \in Requests : \A d \in DOMAIN store :
    ( /\ req[r].wres = "ok"
      /\ store[d].key = req[r].key
      /\ handler \in IndexedShippingHandlers
      /\ req[r].in.shipLen > 0 ) =>
      LET len == req[r].in.shipLen
          i == IF req[r].in.shipIdx.k = "int" THEN req[r].in.shipIdx.v ELSE 0
          clamped == IF i < 0 THEN 0 ELSE IF i >= len THEN len - 1 ELSE i
      IN  /\ store[d].shipUsed = clamped + 1
          /\ store[d].shipLen = len

\* C26: the size of a stored record is the size of the first line item, in
\* order, that has one; and where a size is required, a request none of whose
\* line items has a size is answered 400 with no gateway call and no store
\* call.
C26_SizeIsFirstNonEmptyVariant ==
  \A r \in Requests :
    /\ \A d \in DOMAIN store :
         ( /\ req[r].wres = "ok"
           /\ store[d].key = req[r].key
           /\ handler \in {"part_006", "part_007", "part_005", "index_js"} ) =>
           store[d].sizeFrom = req[r].in.sizeAt
    /\ ( /\ req[r].pc # "idle"
         /\ handler \in {"part_006", "part_007"}
         /\ req[r].in.method = "POST"
         /\ req[r].in.sizeAt = 0 ) =>
         /\ req[r].resp.status = 400
         /\ NoCalls(r)

\* C27: once the timer of promiseWithTimeout has fired for a request, the 503
\* response stands, the request has no order and issues no store call, and the
\* later completion of the abandoned gateway call changes nothing but the
\* state of that call (the store in particular is left as it is).
C27_LateGatewayHasNoEffect ==
  /\ [](\A r \in Requests :
          req[r].gw \in {"timeout", "late"} =>
            /\ req[r].pc = "done"
            /\ req[r].resp = Fail(503)
            /\ req[r].order = NoOrder
            /\ req[r].key = NoKey
            /\ req[r].storeCalls = 0)
  /\ [][\A r \in Requests :
          (req[r].gw = "timeout" /\ req'[r] # req[r]) =>
            /\ req'[r] = [req[r] EXCEPT !.gw = "late"]
            /\ store' = store]_vars

\* The gateway call of a timed-out request has settled late, the request
\* stands answered 503, and another request has written its document.
C27_Witness ==
  \E r \in Requests :
    /\ req[r].gw = "late"
    /\ req[r].resp.status = 503
    /\ req[r].nResp = 1
    /\ store # << >>

\* C28: a lookup that throws makes the handler issue createDocument (the key
\* is treated as absent), and when that insert succeeds the request ends in
\* success with a new document carrying the request's key, whatever the store
\* already holds.
C28_FailedLookupProceedsToCreate ==
  [][\A r \in Requests :
       /\ ( /\ req[r].pc = "lookup"
            /\ req'[r].lookup = "failed" )
          => ( /\ req'[r].pc = "write"
               /\ req'[r].op = "create"
               /\ req'[r].existing = NoDoc
               /\ req'[r].resp = NoResponse )
       /\ ( /\ req[r].pc = "write"
            /\ req[r].lookup = "failed"
            /\ req'[r].wres = "ok" )
          => ( /\ req'[r].pc = "done"
               /\ req'[r].resp.status = 200
               /\ req'[r].resp.success = "true"
               /\ Len(store') = Len(store) + 1
               /\ store'[Len(store')].key = req[r].key )
    ]_vars

\* A request whose lookup threw has inserted its document and succeeded while
\* the store already held a document with the same key.
C28_Witness ==
  \E r \in Requests :
    /\ req[r].lookup = "failed"
    /\ req[r].wres = "ok"
    /\ req[r].resp.success = "true"
    /\ Cardinality(Matches(store, req[r].key)) >= 2

C30_UnknownPaymentMethodRejected ==
  /\ \A r \in Requests :
       ( /\ req[r].pc # "idle"
         /\ handler \in {"part_006", "part_007", "part_013c", "part_009a"}
         /\ req[r].in.method = "POST"
         /\ PmOf(handler, req[r].in) \notin {"cod", "razorpay"} ) =>
         /\ req[r].resp.status = 400
         /\ NoCalls(r)
  /\ \A d \in DOMAIN store :
       store[d].key \in CodIds => store[d].pm = "cod" /\ store[d].status = "pending"
====
